---------------------------- MODULE Spec2Model ----------------------------
(***************************************************************************)
(* Model of the HuggingFace multimodal assistant backend:                  *)
(*   lucifer/backend/app/services.py  HuggingService (the dispatch facade) *)
(*   lucifer/backend/app/main.py      the FastAPI application (the router) *)
(*                                                                         *)
(* Five specifications share the definitions below:                        *)
(*   SpecCache     sequential calls of HuggingService.load_dataset         *)
(*   SpecDispatch  sequential calls of HuggingService.any_to_any           *)
(*   Spec          the served application under every configuration, with a*)
(*                 client that awaits each response before its next request*)
(*   SpecPool      the application with concurrent requests and external   *)
(*                 calls that may never return                             *)
(*   SpecRace      the application with concurrent /dataset requests       *)
(***************************************************************************)
EXTENDS Naturals, Sequences, FiniteSets, Bags, TLC

VARIABLES
    HF_TOKEN,     \* main.py: os.getenv("HF_TOKEN"), read once at import
    API_KEY,      \* main.py: os.getenv("API_KEY"), read once at import
    datasets,     \* HuggingService._datasets: key -> loaded dataset object
    loaderCalls,  \* key -> number of calls of datasets.load_dataset made for it
    loaderOk,     \* key -> number of those calls that returned an object
    stores,       \* key -> the objects written to _datasets[key], in order
    queue,        \* IO_POOL's work queue (FIFO) of submitted facade calls
    running,      \* bag of the facade calls executing on IO_POOL's threads
    reading,      \* bag of the handlers suspended at "await file.read()"
    done,         \* bag of the finished facade calls whose handler, suspended
                  \* at "await run_blocking(...)", has not resumed yet
    warnings,     \* number of "API_KEY not configured" warnings logged
    gated,        \* number of requests received for a route other than /health
    last          \* the most recent finished call / answered request

vars == <<HF_TOKEN, API_KEY, datasets, loaderCalls, loaderOk, stores,
          queue, running, reading, done, warnings, gated, last>>

---------------------------------------------------------------------------
\* Bounds of the model.

\* loader invocations explored per cache key
MaxLoads == 2
\* requests in flight at once (submitted, not answered, their external call
\* not hung) in SpecPool
MaxActive == 1
\* the same in SpecRace
MaxRacers == 2
\* the value at which the counters of warnings and of requests saturate
MaxWarnings == 2

---------------------------------------------------------------------------
\* Python values.

\* Python's None (a value no input string equals)
None == "<None>"

\* bool(v) for an Optional[str]: None and "" are falsy
Truthy(v) == v # None /\ v # ""

\* v or d
Or(v, d) == IF Truthy(v) THEN v ELSE d

---------------------------------------------------------------------------
\* HuggingService: the dataset cache (services.py 27-51).

Names == {"d", "d::e"}
Subsets == {None, "", "e::"}
Shapes == {"DatasetDict", "Dataset", "IterableDataset"}

\* services.py 27-28: f"{name}::{subset or ''}"
_key(name, subset) == name \o "::" \o Or(subset, "")

Keys == {_key(n, s) : n \in Names, s \in Subsets}

\* services.py 37: load_dataset(name, subset) if subset else load_dataset(name)
LoaderArgs(name, subset) == IF Truthy(subset) THEN <<name, subset>> ELSE <<name>>

\* services.py 32: key in self._datasets
CacheHit(cache, key) == key \in DOMAIN cache

\* a store that keeps the entry already there (dict.setdefault)
CacheStoreFirst(cache, key, ds) ==
    IF key \in DOMAIN cache THEN cache
    ELSE [k \in DOMAIN cache \cup {key} |-> IF k = key THEN ds ELSE cache[k]]

\* services.py 38: self._datasets[key] = ds
CacheStore(cache, key, ds) ==
    [k \in DOMAIN cache \cup {key} |-> IF k = key THEN ds ELSE cache[k]]

\* services.py 41-51: the lightweight info; an exception while deriving the
\* optional fields is logged and swallowed, leaving the fields set so far.
\* "of" is the identity of the object summarised (not a field of the dict).
summarize(key, ds) ==
    [key    |-> key,
     type   |-> ds.type,
     fields |-> CASE ds.type = "DatasetDict" -> {"splits", "size_per_split", "features"}
                  [] ds.type = "Dataset"     -> {"length", "features"}
                  [] OTHER                   -> {},
     of     |-> ds.id]

\* a load in which a failure to summarise the object fails the call
load_dataset_strict(cache, name, subset, streaming, loaded) ==
    LET key == _key(name, subset) IN
    IF CacheHit(cache, key)
    THEN [cache |-> cache, invoked |-> FALSE, args |-> <<>>,
          ok |-> TRUE, value |-> summarize(key, cache[key])]
    ELSE IF loaded.raised
    THEN [cache |-> cache, invoked |-> TRUE, args |-> LoaderArgs(name, subset),
          ok |-> FALSE, exc |-> loaded.exc]
    ELSE IF loaded.ds.type = "IterableDataset"
    THEN [cache |-> CacheStore(cache, key, loaded.ds), invoked |-> TRUE,
          args |-> LoaderArgs(name, subset), ok |-> FALSE, exc |-> "TypeError"]
    ELSE [cache |-> CacheStore(cache, key, loaded.ds), invoked |-> TRUE,
          args |-> LoaderArgs(name, subset),
          ok |-> TRUE, value |-> summarize(key, loaded.ds)]

\* a load that consults the loader even when the key is cached
load_dataset_reload(cache, name, subset, streaming, loaded) ==
    LET key == _key(name, subset) IN
    IF loaded.raised
    THEN [cache |-> cache, invoked |-> TRUE, args |-> LoaderArgs(name, subset),
          ok |-> FALSE, exc |-> loaded.exc]
    ELSE [cache |-> CacheStore(cache, key, loaded.ds), invoked |-> TRUE,
          args |-> LoaderArgs(name, subset),
          ok |-> TRUE, value |-> summarize(key, loaded.ds)]

\* services.py 30-51, run without interleaving. "loaded" is what the external
\* loader does if it is called: [raised |-> TRUE, exc] or [raised |-> FALSE, ds].
load_dataset(cache, name, subset, streaming, loaded) ==
    LET key == _key(name, subset) IN
    IF CacheHit(cache, key)
    THEN [cache |-> cache, invoked |-> FALSE, args |-> <<>>,
          ok |-> TRUE, value |-> summarize(key, cache[key])]
    ELSE IF loaded.raised
    THEN [cache |-> cache, invoked |-> TRUE, args |-> LoaderArgs(name, subset),
          ok |-> FALSE, exc |-> loaded.exc]
    ELSE [cache |-> CacheStore(cache, key, loaded.ds), invoked |-> TRUE,
          args |-> LoaderArgs(name, subset),
          ok |-> TRUE, value |-> summarize(key, loaded.ds)]

\* the object the n-th loader call for a key returns
NewDs(key, n, shape) == [id |-> <<key, n>>, type |-> shape]

Bump(f, k) == [f EXCEPT ![k] = @ + 1]

---------------------------------------------------------------------------
\* SpecCache: load_dataset called sequentially on one service.

NoCall == [op |-> "none", via |-> "none"]

InitCache ==
    /\ HF_TOKEN = "hf_tok"
    /\ API_KEY = None
    /\ datasets = <<>>
    /\ loaderCalls = [k \in Keys |-> 0]
    /\ loaderOk = [k \in Keys |-> 0]
    /\ stores = [k \in Keys |-> <<>>]
    /\ queue = <<>>
    /\ running = EmptyBag
    /\ reading = EmptyBag
    /\ done = EmptyBag
    /\ warnings = 0
    /\ gated = 0
    /\ last = NoCall

LoadCall(name, subset, streaming, loaded) ==
    LET key == _key(name, subset)
        r   == load_dataset(datasets, name, subset, streaming, loaded)
    IN  /\ r.invoked => loaderCalls[key] < MaxLoads
        /\ datasets' = r.cache
        /\ loaderCalls' = IF r.invoked THEN Bump(loaderCalls, key) ELSE loaderCalls
        /\ loaderOk' = IF r.invoked /\ r.ok THEN Bump(loaderOk, key) ELSE loaderOk
        /\ stores' = IF r.invoked /\ r.ok
                     THEN [stores EXCEPT ![key] = Append(@, loaded.ds.id)]
                     ELSE stores
        /\ last' = [op |-> "load_dataset", name |-> name, subset |-> subset,
                    key |-> key, before |-> datasets, loaded |-> loaded,
                    callsBefore |-> loaderCalls[key], invoked |-> r.invoked,
                    args |-> r.args, ok |-> r.ok,
                    value |-> IF r.ok THEN r.value ELSE r.exc]
        /\ UNCHANGED <<reading, done, HF_TOKEN, API_KEY, queue, running, warnings, gated>>

LoadDataset ==
    \E name \in Names, subset \in Subsets, streaming \in BOOLEAN :
        \/ \E shape \in Shapes :
              LoadCall(name, subset, streaming,
                       [raised |-> FALSE,
                        ds |-> NewDs(_key(name, subset),
                                     loaderCalls[_key(name, subset)] + 1, shape)])
        \/ LoadCall(name, subset, streaming,
                    [raised |-> TRUE, exc |-> "DatasetNotFoundError"])

NextCache == LoadDataset

SpecCache == InitCache /\ [][NextCache]_vars

---------------------------------------------------------------------------
\* HuggingService: the capability operations (services.py 53-94).
\* Each operation is a plan (what it does up to its call of the external
\* client: raise, or the call it makes) and the treatment of the call's result.
\* "ext" is what the external client does when called:
\*   [raised |-> TRUE, exc, msg]  or  [raised |-> FALSE, res].

DefaultTextModel == "gpt2"
DefaultAudioModel == "openai/whisper-large-v2"
DefaultImageModel == "Salesforce/blip-image-captioning-large"
DefaultVqaModel == "dandelin/vilt-b32-finetuned-vqa"

\* payloads: bytes, a str, the combined dict built by the router, or None
Img == [kind |-> "bytes", data |-> "img"]
Wav == [kind |-> "bytes", data |-> "wav"]
Txt == [kind |-> "str", data |-> "hi"]
NoPayload == [kind |-> "none"]
Combined(image, question) == [kind |-> "dict", image |-> image, question |-> question]

\* results the external client may return
ResStr == [kind |-> "str", text |-> "X"]
ResGenList == [kind |-> "list", first |-> [kind |-> "dict", generated_text |-> "X"]]
ResOtherList == [kind |-> "list", first |-> [kind |-> "dict", foo |-> 1]]
ResEmptyList == [kind |-> "list"]
ResTextDict == [kind |-> "dict", text |-> "hello"]
ResOtherDict == [kind |-> "dict", other |-> 1]
Results == {ResStr, ResGenList, ResOtherList, ResEmptyList, ResTextDict, ResOtherDict}

\* str(res): a str is returned as it is, anything else as its representation
PyStr(res) == IF res.kind = "str" THEN [text |-> res.text] ELSE [repr |-> res]

\* op: the capability operation that raises ("" for the dispatcher itself)
Raise(op, exc, msg) == [raises |-> TRUE, op |-> op, exc |-> exc, msg |-> msg]
Call(op, method, model, args) ==
    [raises |-> FALSE, op |-> op,
     call |-> [method |-> method, model |-> model, args |-> args]]

\* services.py 53-55: int(max_new_tokens) is evaluated while the arguments of
\* client.text_generation are built; it leaves an int as it is and raises
\* for None
generate_text_plan(prompt, model, max_new_tokens) ==
    IF ToString(max_new_tokens) = ToString(None)
    THEN Raise("generate_text", "TypeError",
               "int() argument must be a string, a bytes-like object or a real number, not 'NoneType'")
    ELSE Call("generate_text", "text_generation", model,
              [inputs |-> prompt, max_new_tokens |-> max_new_tokens])

\* services.py 63-65: len(audio_bytes) is evaluated for the debug log
transcribe_audio_plan(audio_bytes, model) ==
    IF audio_bytes.kind = "none"
    THEN Raise("transcribe_audio", "TypeError", "object of type 'NoneType' has no len()")
    ELSE Call("transcribe_audio", "automatic_speech_recognition", model,
              [inputs |-> audio_bytes])

\* services.py 70-72
analyze_image_plan(image_bytes, model) ==
    IF image_bytes.kind = "none"
    THEN Raise("analyze_image", "TypeError", "object of type 'NoneType' has no len()")
    ELSE Call("analyze_image", "image_to_text", model, [inputs |-> image_bytes])

\* services.py 75-77
multimodal_vqa_plan(image_bytes, question, model) ==
    Call("multimodal_vqa", "visual_question_answering", model,
         [image |-> image_bytes, question |-> question])

\* services.py 56-61, 66-68, 73, 78: what each operation returns for a result
Finish(op, res) ==
    CASE op = "generate_text" ->
            IF res.kind = "list" /\ "first" \in DOMAIN res
            THEN IF res.first.kind = "dict" /\ "generated_text" \in DOMAIN res.first
                 THEN [text |-> res.first.generated_text]
                 ELSE PyStr(res.first)
            ELSE PyStr(res)
      [] op = "transcribe_audio" ->
            IF res.kind = "dict" /\ "text" \in DOMAIN res
            THEN [text |-> res.text]
            ELSE PyStr(res)
      [] OTHER -> PyStr(res)

\* a plan run against the external client's behaviour
Exec(plan, ext) ==
    IF plan.raises
    THEN [ok |-> FALSE, exc |-> plan.exc, msg |-> plan.msg,
          ops |-> IF plan.op = "" THEN <<>> ELSE <<plan.op>>, calls |-> <<>>]
    ELSE IF ext.raised
    THEN [ok |-> FALSE, exc |-> ext.exc, msg |-> ext.msg,
          ops |-> <<plan.op>>, calls |-> <<plan.call>>]
    ELSE [ok |-> TRUE, value |-> Finish(plan.op, ext.res),
          ops |-> <<plan.op>>, calls |-> <<plan.call>>]

generate_text(prompt, model, max_new_tokens, ext) ==
    Exec(generate_text_plan(prompt, model, max_new_tokens), ext)
transcribe_audio(audio_bytes, model, ext) ==
    Exec(transcribe_audio_plan(audio_bytes, model), ext)
analyze_image(image_bytes, model, ext) ==
    Exec(analyze_image_plan(image_bytes, model), ext)
multimodal_vqa(image_bytes, question, model, ext) ==
    Exec(multimodal_vqa_plan(image_bytes, question, model), ext)

\* a dispatch that falls back to text generation for an unknown pair
any_to_any_plan_open(input_type, output_type, payload, model) ==
    IF input_type = "audio" /\ output_type = "text"
    THEN transcribe_audio_plan(payload, Or(model, DefaultAudioModel))
    ELSE IF input_type = "image" /\ output_type = "caption"
    THEN analyze_image_plan(payload, Or(model, DefaultImageModel))
    ELSE IF input_type = "image" /\ output_type = "vqa"
    THEN LET question == IF payload.kind = "dict" THEN payload.question ELSE None IN
         IF ~Truthy(question)
         THEN Raise("", "ValueError", "Missing question for image->vqa")
         ELSE multimodal_vqa_plan(payload.image, question, Or(model, DefaultVqaModel))
    ELSE generate_text_plan(payload, Or(model, DefaultTextModel), 200)

\* services.py 80-94: the dispatch table, up to the external call
any_to_any_plan(input_type, output_type, payload, model) ==
    IF input_type = "audio" /\ output_type = "text"
    THEN transcribe_audio_plan(payload, Or(model, DefaultAudioModel))
    ELSE IF input_type = "image" /\ output_type = "caption"
    THEN analyze_image_plan(payload, Or(model, DefaultImageModel))
    ELSE IF input_type = "image" /\ output_type = "vqa"
    THEN LET question == IF payload.kind = "dict" THEN payload.question ELSE None IN
         IF ~Truthy(question)
         THEN Raise("", "ValueError", "Missing question for image->vqa")
         ELSE LET image == IF payload.kind = "bytes" THEN payload ELSE payload.image IN
              multimodal_vqa_plan(image, question, Or(model, DefaultVqaModel))
    ELSE IF input_type = "text" /\ output_type = "text"
    THEN generate_text_plan(payload, Or(model, DefaultTextModel), 200)
    ELSE Raise("", "ValueError",
               "Unsupported conversion " \o input_type \o "->" \o output_type)

any_to_any(input_type, output_type, payload, model, ext) ==
    Exec(any_to_any_plan(input_type, output_type, payload, model), ext)

---------------------------------------------------------------------------
\* SpecDispatch: any_to_any called sequentially on one service.

InputTypes == {"audio", "image", "text", "video"}
OutputTypes == {"text", "caption", "vqa"}
Models == {None, "", "m"}
Questions == {None, "", "what?"}
Payloads == {Img, Txt, NoPayload} \cup {Combined(Img, q) : q \in Questions}
ExtOutcomes ==
    {[raised |-> FALSE, res |-> r] : r \in {ResStr, ResGenList, ResTextDict}}
        \cup {[raised |-> TRUE, exc |-> "HfHubHTTPError", msg |-> "503 Service Unavailable"]}

Supported == {<<"audio", "text">>, <<"image", "caption">>,
              <<"image", "vqa">>, <<"text", "text">>}

InitDispatch == InitCache

\* The caller holds an image and possibly a question. It passes either the
\* combined structure, or the raw payload; any_to_any has no parameter that
\* could carry a question beside a raw payload.
AnyToAny ==
    \E input_type \in InputTypes, output_type \in OutputTypes,
       payload \in Payloads, question \in Questions,
       model \in Models, ext \in ExtOutcomes :
        /\ payload.kind = "dict" => payload.question = question
        /\ payload.kind \in {"str", "none"} => question = None
        /\ last' = [op |-> "any_to_any", input_type |-> input_type,
                    output_type |-> output_type, payload |-> payload,
                    question |-> question, model |-> model, ext |-> ext,
                    result |-> any_to_any(input_type, output_type, payload, model, ext)]
        /\ UNCHANGED <<reading, done, HF_TOKEN, API_KEY, datasets, loaderCalls, loaderOk, stores,
                       queue, running, warnings, gated>>

NextDispatch == AnyToAny

SpecDispatch == InitDispatch /\ [][NextDispatch]_vars

---------------------------------------------------------------------------
\* main.py: the application. main.py holds the module text twice (lines
\* 1-159 and 160-291). Importing it runs both: the first text creates a
\* FastAPI object with the API-key middleware, the routes and /ready; the
\* second text binds the name app to a new FastAPI object (line 182) and
\* registers the routes again, with neither the middleware nor /ready. The
\* application served is the object app names after import, the second.

CapabilityPaths == {"/dataset", "/chat", "/voice", "/image", "/vqa", "/any-to-any"}

\* main.py 23-151: the first FastAPI object
FirstApp == [middleware |-> TRUE, routes |-> CapabilityPaths \cup {"/health", "/ready"}]

\* main.py 182-285: the second FastAPI object
SecondApp == [middleware |-> FALSE, routes |-> CapabilityPaths \cup {"/health"}]

\* main.py 182: app = FastAPI(...), the binding in force after import
app == SecondApp

\* a pool with one worker more
PoolSizePlusOne == 4 + 1

\* main.py 185: IO_POOL = ThreadPoolExecutor(max_workers=4)
PoolSize == 4

\* main.py 180: service = HuggingService(HF_TOKEN) if HF_TOKEN else None
ServiceFor(hf_token) == IF Truthy(hf_token) THEN "HuggingService" ELSE None
service == ServiceFor(HF_TOKEN)

Response(status, body) == [kind |-> "response", status |-> status, body |-> body]
\* raise HTTPException(status_code, detail)
HTTPException(status, detail) == Response(status, [detail |-> detail])
\* await run_blocking(fn, *args): fn(*args) is submitted to IO_POOL
Submit(task) == [kind |-> "submit", task |-> task]

NotConfigured == HTTPException(500, "HF_TOKEN not configured on server")

\* main.py 34-48, the middleware of the first FastAPI object. provided: the
\* x-api-key header's value, None when absent. pass: call_next(request) is
\* awaited; warn: the warning is logged.
api_key_middleware(api_key, path, provided) ==
    IF path = "/health" THEN [pass |-> TRUE, warn |-> FALSE]
    ELSE IF ~Truthy(api_key) THEN [pass |-> TRUE, warn |-> TRUE]
    ELSE IF provided # api_key
    THEN [pass |-> FALSE, warn |-> FALSE,
          response |-> Response(401, [detail |-> "Unauthorized - invalid API key"])]
    ELSE [pass |-> TRUE, warn |-> FALSE]

\* main.py 193-198
load_any_dataset(svc, name, subset, streaming) ==
    IF svc = None THEN NotConfigured
    ELSE Submit([route |-> "/dataset", fn |-> "load_dataset",
                 name |-> name, subset |-> subset, streaming |-> streaming])

\* main.py 205-211
chat_endpoint(svc, prompt, model, max_new_tokens) ==
    IF svc = None THEN NotConfigured
    ELSE Submit([route |-> "/chat", fn |-> "generate_text", prompt |-> prompt,
                 model |-> Or(model, "gpt2"), max_new_tokens |-> max_new_tokens])

\* main.py 218-224
voice_to_text(svc, file) ==
    IF svc = None THEN NotConfigured
    ELSE Submit([route |-> "/voice", fn |-> "transcribe_audio", audio |-> file,
                 model |-> DefaultAudioModel])

\* main.py 231-238
image_to_text(svc, file, model) ==
    IF svc = None THEN NotConfigured
    ELSE Submit([route |-> "/image", fn |-> "analyze_image", image |-> file,
                 model |-> Or(model, "Salesforce/blip-image-captioning-large")])

\* main.py 245-252
vqa_endpoint(svc, file, question, model) ==
    IF svc = None THEN NotConfigured
    ELSE Submit([route |-> "/vqa", fn |-> "multimodal_vqa", image |-> file,
                 question |-> question,
                 model |-> Or(model, "dandelin/vilt-b32-finetuned-vqa")])

AnySubmit(input_type, output_type, payload, model) ==
    Submit([route |-> "/any-to-any", fn |-> "any_to_any", input_type |-> input_type,
            output_type |-> output_type, payload |-> payload, model |-> model])

\* main.py 259-280. file: the uploaded bytes, NoPayload when no file is sent.
any_to_any_endpoint(svc, input_type, output_type, model, file, text, question) ==
    IF svc = None THEN NotConfigured
    ELSE IF file.kind # "none"
    THEN AnySubmit(input_type, output_type,
                   IF input_type = "image" /\ output_type = "vqa"
                   THEN Combined(file, question) ELSE file, model)
    ELSE IF text # None
    THEN AnySubmit(input_type, output_type, [kind |-> "str", data |-> text], model)
    ELSE HTTPException(400, "No valid payload provided")

\* main.py 283-285
health == Response(200, [status |-> "ok"])

\* main.py 151-159, a route of the first FastAPI object only
ready(svc) ==
    IF svc = None THEN HTTPException(503, "service not ready: HF_TOKEN missing")
    ELSE Response(200, [status |-> "ready"])

\* the framework's answer for a path the application has no route for
NotFound == HTTPException(404, "Not Found")

\* the route table of an application: what the handler of req's route does on
\* the event loop up to its first await
HandleOn(application, svc, req) ==
    IF req.route \notin application.routes THEN NotFound
    ELSE
    CASE req.route = "/health" -> health
      [] req.route = "/ready" -> ready(svc)
      [] req.route = "/dataset" ->
            load_any_dataset(svc, req.name, req.subset, req.streaming)
      [] req.route = "/chat" ->
            chat_endpoint(svc, req.prompt, req.model, req.max_new_tokens)
      [] req.route = "/voice" -> voice_to_text(svc, req.file)
      [] req.route = "/image" -> image_to_text(svc, req.file, req.model)
      [] req.route = "/vqa" -> vqa_endpoint(svc, req.file, req.question, req.model)
      [] req.route = "/any-to-any" ->
            any_to_any_endpoint(svc, req.input_type, req.output_type, req.model,
                                req.file, req.text, req.question)

\* the route table of the served application
Handle(svc, req) == HandleOn(app, svc, req)

\* the middleware stack of an application, applied to a request
GateOn(application, api_key, req) ==
    IF application.middleware
    THEN api_key_middleware(api_key, req.route, req.header)
    ELSE [pass |-> TRUE, warn |-> FALSE]

\* whether the handler awaits file.read() before its facade call
\* (main.py 223, 236, 250, 266)
NeedsUpload(req) == "file" \in DOMAIN req /\ req.file.kind # "none"

\* what the facade call of a submitted task does up to its external call
TaskPlan(t) ==
    CASE t.fn = "generate_text" -> generate_text_plan(t.prompt, t.model, t.max_new_tokens)
      [] t.fn = "transcribe_audio" -> transcribe_audio_plan(t.audio, t.model)
      [] t.fn = "analyze_image" -> analyze_image_plan(t.image, t.model)
      [] t.fn = "multimodal_vqa" -> multimodal_vqa_plan(t.image, t.question, t.model)
      [] t.fn = "any_to_any" ->
            any_to_any_plan(t.input_type, t.output_type, t.payload, t.model)

\* the handler's return after run_blocking: the success envelope of its route,
\* or, in its except clause, HTTPException(500, str(e))
Reply(t, r) ==
    IF ~r.ok THEN HTTPException(500, r.msg)
    ELSE CASE t.route = "/dataset" ->
                Response(200, [status |-> "success", dataset |-> r.value])
           [] t.route = "/chat" ->
                Response(200, [status |-> "success", model |-> t.model, output |-> r.value])
           [] t.route = "/voice" ->
                Response(200, [status |-> "success", text |-> r.value])
           [] t.route = "/image" ->
                Response(200, [status |-> "success", model |-> t.model, caption |-> r.value])
           [] t.route = "/vqa" ->
                Response(200, [status |-> "success", model |-> t.model, answer |-> r.value])
           [] t.route = "/any-to-any" ->
                Response(200, [status |-> "success", result |-> r.value])

---------------------------------------------------------------------------
\* Spec: requests arrive on the event loop; facade calls run on IO_POOL.

Headers == {None, "wrong", "secret"}

HealthRequests == {[route |-> "/health"], [route |-> "/ready"]}
DatasetRequests(names, subsets) ==
    {[route |-> "/dataset", name |-> n, subset |-> s, streaming |-> st] :
        n \in names, s \in subsets, st \in BOOLEAN}
CapabilityRequests ==
    {[route |-> "/chat", prompt |-> "hi", model |-> m, max_new_tokens |-> 200] :
        m \in {None, "m"}}
    \cup {[route |-> "/voice", file |-> Wav]}
    \cup {[route |-> "/image", file |-> Img, model |-> None]}
    \cup {[route |-> "/vqa", file |-> Img, question |-> "what?", model |-> None]}
AnyRequests ==
    {[route |-> "/any-to-any", input_type |-> i, output_type |-> o, model |-> None,
      file |-> f, text |-> t, question |-> q] :
        i \in {"image", "text"}, o \in {"vqa", "text"},
        f \in {NoPayload, Img}, t \in {None, "hi"}, q \in {None, "what?"}}

WithHeader(reqs, headers) ==
    {[x \in DOMAIN r \cup {"header"} |-> IF x = "header" THEN h ELSE r[x]] :
        r \in reqs, h \in headers}

Requests ==
    WithHeader(HealthRequests \cup DatasetRequests({"d"}, {None, "e::"})
                   \cup CapabilityRequests \cup AnyRequests, Headers)

Min(a, b) == IF a < b THEN a ELSE b

\* a facade call whose external call never returns
Hung == [pc |-> "hung"]
HungCount == CopiesIn(Hung, running)
Active ==
    Len(queue) + BagCardinality(reading) + BagCardinality(running) - HungCount
        + BagCardinality(done)

\* the future of a facade call is set: its result r waits for the handler
Finished(t, r) == done (+) SetToBag({[t |-> t, r |-> r]})

TaskKey(t) == _key(t.name, t.subset)
QueuedLoads(key) ==
    Cardinality({i \in 1..Len(queue) :
                    queue[i].fn = "load_dataset" /\ TaskKey(queue[i]) = key})

Put(w) == running (+) SetToBag({w})
Take(w) == running (-) SetToBag({w})

Answer(via, req, resp) ==
    [op |-> "response", via |-> via, req |-> req,
     status |-> resp.status, body |-> resp.body]

Init ==
    /\ HF_TOKEN \in {None, "", "hf_tok"}
    /\ API_KEY \in {None, "", "secret"}
    /\ datasets = <<>>
    /\ loaderCalls = [k \in Keys |-> 0]
    /\ loaderOk = [k \in Keys |-> 0]
    /\ stores = [k \in Keys |-> <<>>]
    /\ queue = <<>>
    /\ running = EmptyBag
    /\ reading = EmptyBag
    /\ done = EmptyBag
    /\ warnings = 0
    /\ gated = 0
    /\ last = NoCall

\* One request, from its arrival to the handler's first suspension: its
\* response, "await file.read()", or the submit inside run_blocking.
Receive(req) ==
    LET gate == GateOn(app, API_KEY, req)
        out  == Handle(service, req)
    IN  /\ warnings' = IF gate.warn THEN Min(warnings + 1, MaxWarnings) ELSE warnings
        /\ gated' = IF req.route # "/health" THEN Min(gated + 1, MaxWarnings) ELSE gated
        /\ IF ~gate.pass
           THEN /\ last' = Answer("gate", req, gate.response)
                /\ UNCHANGED <<queue, reading>>
           ELSE IF out.kind = "response"
           THEN /\ last' = Answer(IF req.route \in app.routes THEN "handler" ELSE "router",
                                  req, out)
                /\ UNCHANGED <<queue, reading>>
           ELSE IF NeedsUpload(req)
           THEN /\ reading' = reading (+) SetToBag({[req |-> req, task |-> out.task]})
                /\ last' = [op |-> "reading", via |-> "handler", req |-> req]
                /\ queue' = queue
           ELSE /\ out.task.fn = "load_dataset" =>
                      \/ CacheHit(datasets, TaskKey(out.task))
                      \/ loaderCalls[TaskKey(out.task)] + QueuedLoads(TaskKey(out.task))
                            < MaxLoads
                /\ queue' = Append(queue, out.task)
                /\ last' = [op |-> "submit", via |-> "handler", req |-> req]
                /\ reading' = reading
        /\ UNCHANGED <<HF_TOKEN, API_KEY, datasets, loaderCalls, loaderOk, stores,
                       running, done>>

\* The upload has been read: the handler resumes and submits its facade call
\* (main.py 224, 238, 252, 274).
UploadRead ==
    \E h \in BagToSet(reading) :
        /\ reading' = reading (-) SetToBag({h})
        /\ queue' = Append(queue, h.task)
        /\ last' = [op |-> "submit", via |-> "handler", req |-> h.req]
        /\ UNCHANGED <<HF_TOKEN, API_KEY, datasets, loaderCalls, loaderOk, stores,
                       running, done, warnings, gated>>

\* whether the request gets as far as a facade call
Dispatched(req) ==
    /\ GateOn(app, API_KEY, req).pass
    /\ Handle(service, req).kind = "submit"

\* a client that awaits each response before it sends the next request
AwaitingClient ==
    \E req \in Requests :
        /\ queue = <<>>
        /\ running = EmptyBag
        /\ reading = EmptyBag
        /\ done = EmptyBag
        /\ Receive(req)

\* clients that send requests while others are in flight
ConcurrentClients(reqs, maxActive) ==
    \E req \in reqs :
        /\ Dispatched(req) => Active < maxActive
        /\ Receive(req)

\* An idle worker of IO_POOL takes a load_dataset call: services.py 31-32
\* and, on a miss, the call of the external loader (37).
StartLoad ==
    /\ queue # <<>>
    /\ BagCardinality(running) < PoolSize
    /\ Head(queue).fn = "load_dataset"
    /\ LET t == Head(queue)
           key == TaskKey(t)
       IN  /\ queue' = Tail(queue)
           /\ IF CacheHit(datasets, key)
              THEN /\ running' = Put([pc |-> "hit", t |-> t])
                   /\ loaderCalls' = loaderCalls
              ELSE /\ running' = Put([pc |-> "loading", t |-> t,
                                      n |-> loaderCalls[key] + 1])
                   /\ loaderCalls' = Bump(loaderCalls, key)
    /\ UNCHANGED <<reading, done, HF_TOKEN, API_KEY, datasets, loaderOk, stores, warnings, gated, last>>

\* services.py 34, 41-51 on a hit: the call returns the summary and the
\* worker is free
ReadHit ==
    \E w \in BagToSet(running) :
        /\ w.pc = "hit"
        /\ running' = Take(w)
        /\ done' = Finished(w.t, [ok |-> TRUE,
                                  value |-> summarize(TaskKey(w.t),
                                                      datasets[TaskKey(w.t)])])
        /\ UNCHANGED <<reading, HF_TOKEN, API_KEY, datasets, loaderCalls, loaderOk,
                       stores, queue, warnings, gated, last>>

\* the external loader returns an object (services.py 37)
LoaderReturn(shapes) ==
    \E w \in BagToSet(running), shape \in shapes :
        /\ w.pc = "loading"
        /\ running' = Take(w) (+) SetToBag({[pc |-> "loaded", t |-> w.t,
                                             ds |-> NewDs(TaskKey(w.t), w.n, shape)]})
        /\ loaderOk' = Bump(loaderOk, TaskKey(w.t))
        /\ UNCHANGED <<reading, done, HF_TOKEN, API_KEY, datasets, loaderCalls, stores,
                       queue, warnings, gated, last>>

\* the external loader raises: load_dataset propagates the exception
LoaderRaise ==
    \E w \in BagToSet(running) :
        /\ w.pc = "loading"
        /\ running' = Take(w)
        /\ done' = Finished(w.t, [ok |-> FALSE, exc |-> "DatasetNotFoundError",
                                  msg |-> "Dataset not found"])
        /\ UNCHANGED <<reading, HF_TOKEN, API_KEY, datasets, loaderCalls, loaderOk,
                       stores, queue, warnings, gated, last>>

\* services.py 38, 41-51: the store, the summary, the return
StoreLoaded ==
    \E w \in BagToSet(running) :
        /\ w.pc = "loaded"
        /\ datasets' = CacheStore(datasets, TaskKey(w.t), w.ds)
        /\ stores' = [stores EXCEPT ![TaskKey(w.t)] = Append(@, w.ds.id)]
        /\ running' = Take(w)
        /\ done' = Finished(w.t, [ok |-> TRUE, value |-> summarize(TaskKey(w.t), w.ds)])
        /\ UNCHANGED <<reading, HF_TOKEN, API_KEY, loaderCalls, loaderOk, queue,
                       warnings, gated, last>>

\* An idle worker of IO_POOL takes a capability call from the queue.
StartClient ==
    /\ queue # <<>>
    /\ BagCardinality(running) < PoolSize
    /\ Head(queue).fn # "load_dataset"
    /\ queue' = Tail(queue)
    /\ running' = Put([pc |-> "begun", t |-> Head(queue)])
    /\ UNCHANGED <<reading, done, HF_TOKEN, API_KEY, datasets, loaderCalls, loaderOk,
                   stores, warnings, gated, last>>

\* The call runs on its worker up to its external call, or to the exception
\* it raises before that, which finishes it.
RunToCall ==
    \E w \in BagToSet(running) :
        /\ w.pc = "begun"
        /\ LET plan == TaskPlan(w.t)
           IN  IF plan.raises
               THEN /\ running' = Take(w)
                    /\ done' = Finished(w.t, Exec(plan, plan))
               ELSE /\ running' = Take(w) (+) SetToBag({[pc |-> "calling", t |-> w.t]})
                    /\ done' = done
        /\ UNCHANGED <<reading, HF_TOKEN, API_KEY, datasets, loaderCalls, loaderOk,
                       stores, queue, warnings, gated, last>>

\* the external client returns or raises, and the operation with it
ClientReturn ==
    \E w \in BagToSet(running), ext \in ExtOutcomes :
        /\ w.pc = "calling"
        /\ running' = Take(w)
        /\ done' = Finished(w.t, Exec(TaskPlan(w.t), ext))
        /\ UNCHANGED <<reading, HF_TOKEN, API_KEY, datasets, loaderCalls, loaderOk,
                       stores, queue, warnings, gated, last>>

\* On a later turn of the event loop the handler resumes from
\* "await run_blocking(...)" and answers: the success envelope of its route,
\* or HTTPException(500, str(e)) in its except clause.
Resume ==
    \E h \in BagToSet(done) :
        /\ done' = done (-) SetToBag({h})
        /\ last' = Answer("worker", h.t, Reply(h.t, h.r))
        /\ UNCHANGED <<reading, HF_TOKEN, API_KEY, datasets, loaderCalls, loaderOk,
                       stores, queue, running, warnings, gated>>

\* an external call that never returns: no timeout, no cancellation
Hang ==
    \E w \in BagToSet(running) :
        /\ w.pc \in {"calling", "loading"}
        /\ running' = Take(w) (+) SetToBag({Hung})
        /\ UNCHANGED <<reading, done, HF_TOKEN, API_KEY, datasets, loaderCalls, loaderOk, stores,
                       queue, warnings, gated, last>>

Next ==
    \/ AwaitingClient
    \/ UploadRead
    \/ StartLoad
    \/ ReadHit
    \/ LoaderReturn({"DatasetDict"})
    \/ LoaderRaise
    \/ StoreLoaded
    \/ StartClient
    \/ RunToCall
    \/ ClientReturn
    \/ Hang
    \/ Resume

Spec == Init /\ [][Next]_vars

---------------------------------------------------------------------------
\* SpecPool: concurrent capability requests on a configured service.

InitPool ==
    /\ Init
    /\ HF_TOKEN = "hf_tok"
    /\ API_KEY = "secret"

PoolRequests ==
    WithHeader({[route |-> "/health"],
                [route |-> "/voice", file |-> Wav],
                [route |-> "/image", file |-> Img, model |-> None],
                [route |-> "/chat", prompt |-> "hi", model |-> None,
                 max_new_tokens |-> 200]}, {"secret"})

NextPool ==
    \/ ConcurrentClients(PoolRequests, MaxActive)
    \/ UploadRead
    \/ StartClient
    \/ RunToCall
    \/ ClientReturn
    \/ Hang
    \/ Resume

SpecPool == InitPool /\ [][NextPool]_vars

---------------------------------------------------------------------------
\* SpecRace: concurrent /dataset requests on a configured service.

InitRace == InitPool

RaceRequests == WithHeader(DatasetRequests({"d"}, {None, ""}), {"secret"})

NextRace ==
    \/ ConcurrentClients(RaceRequests, MaxRacers)
    \/ StartLoad
    \/ ReadHit
    \/ LoaderReturn({"DatasetDict"})
    \/ LoaderRaise
    \/ StoreLoaded
    \/ Resume

SpecRace == InitRace /\ [][NextRace]_vars

---------------------------------------------------------------------------
\* Properties.

\* C1 (SpecCache): once a load of a (name, subset) pair has succeeded, every
\* later sequential load of that pair is served from the cache: the external
\* loader is not invoked (the key's call count stays what it was, 1 when the
\* first call succeeded), the summary returned is that of the cached object,
\* and the loader never returns twice for a key.
C1_RepeatedLoadServedFromCache ==
    /\ \A k \in Keys : loaderOk[k] <= 1
    /\ (last.op = "load_dataset" /\ CacheHit(last.before, last.key)) =>
          /\ ~last.invoked
          /\ loaderCalls[last.key] = last.callsBefore
          /\ last.ok
          /\ last.value = summarize(last.key, last.before[last.key])
          /\ last.value.of = datasets[last.key].id

\* a repeated load of a key whose first and only loader call succeeded
C1_Witness ==
    /\ last.op = "load_dataset"
    /\ CacheHit(last.before, last.key)
    /\ loaderCalls[last.key] = 1
    /\ last.ok

\* C10 (SpecCache): in sequential execution a key is cached exactly when a
\* loader call for it has returned; a loader call that raises leaves the cache
\* as it was and its error is the call's outcome, and a load of an uncached
\* key always invokes the loader; an object whose summary fields cannot be
\* derived is cached all the same and the call succeeds; no load removes or
\* replaces an entry.
C10_CacheHoldsSuccessfulLoads ==
    /\ \A k \in Keys : CacheHit(datasets, k) <=> loaderOk[k] >= 1
    /\ last.op = "load_dataset" =>
          /\ \A k \in DOMAIN last.before :
                CacheHit(datasets, k) /\ datasets[k] = last.before[k]
          /\ ~CacheHit(last.before, last.key) => last.invoked
          /\ (last.invoked /\ last.loaded.raised) =>
                /\ datasets = last.before
                /\ ~last.ok
                /\ last.value = last.loaded.exc
          /\ (last.invoked /\ ~last.loaded.raised) =>
                /\ last.ok
                /\ CacheHit(datasets, last.key)
                /\ datasets[last.key] = last.loaded.ds

\* a key whose first loader call raised and whose second returned an object
\* that cannot be summarised
C10_Witness ==
    /\ last.op = "load_dataset"
    /\ last.invoked
    /\ last.ok
    /\ loaderCalls[last.key] = 2
    /\ last.value.fields = {}
    /\ CacheHit(datasets, last.key)

\* the dispatch table as the specification gives it
TableOp(pair) ==
    CASE pair = <<"audio", "text">> -> "transcribe_audio"
      [] pair = <<"image", "caption">> -> "analyze_image"
      [] pair = <<"image", "vqa">> -> "multimodal_vqa"
      [] pair = <<"text", "text">> -> "generate_text"
TableMethod(pair) ==
    CASE pair = <<"audio", "text">> -> "automatic_speech_recognition"
      [] pair = <<"image", "caption">> -> "image_to_text"
      [] pair = <<"image", "vqa">> -> "visual_question_answering"
      [] pair = <<"text", "text">> -> "text_generation"
TableModel(pair) ==
    CASE pair = <<"audio", "text">> -> "openai/whisper-large-v2"
      [] pair = <<"image", "caption">> -> "Salesforce/blip-image-captioning-large"
      [] pair = <<"image", "vqa">> -> "dandelin/vilt-b32-finetuned-vqa"
      [] pair = <<"text", "text">> -> "gpt2"

CarriesQuestion(payload) == payload.kind = "dict" /\ Truthy(payload.question)
MissingQuestion(r) ==
    ~r.ok /\ r.exc = "ValueError" /\ r.msg = "Missing question for image->vqa"

\* C5 (SpecDispatch): the dispatch table is closed. For a pair outside the
\* four supported ones any_to_any raises an error whose message names the
\* input kind and the output kind, and calls neither a capability operation
\* nor the external client. For a supported pair it calls the one matching
\* capability operation and no other (for (image, vqa): once the payload
\* carries a question), with at most one external call, made with the given
\* model or, when none is given, that capability's default model.
C5_ClosedDispatchTable ==
    last.op = "any_to_any" =>
        LET r == last.result
            pair == <<last.input_type, last.output_type>>
        IN  IF pair \notin Supported
            THEN /\ ~r.ok
                 /\ r.exc = "ValueError"
                 /\ r.msg = "Unsupported conversion " \o last.input_type
                                \o "->" \o last.output_type
                 /\ r.ops = <<>>
                 /\ r.calls = <<>>
            ELSE /\ r.ops = <<>> <=>
                        (pair = <<"image", "vqa">> /\ ~CarriesQuestion(last.payload))
                 /\ r.ops # <<>> => r.ops = <<TableOp(pair)>>
                 /\ Len(r.calls) <= 1
                 /\ r.calls # <<>> =>
                        /\ r.calls[1].method = TableMethod(pair)
                        /\ r.calls[1].model =
                              IF Truthy(last.model) THEN last.model ELSE TableModel(pair)

\* an unsupported pair has been refused
C5_Witness ==
    /\ last.op = "any_to_any"
    /\ last.input_type = "video"
    /\ last.output_type = "caption"
    /\ last.result.msg = "Unsupported conversion video->caption"
    /\ last.result.calls = <<>>

\* C6 (SpecDispatch), as claimed: for (image, vqa), any_to_any fails with the
\* validation error exactly when no question is supplied, and makes no
\* external call then; with an image and a question supplied, as a combined
\* structure or as a raw image with the question beside it, it delegates to
\* multimodal_vqa with that image and question and returns its stringified
\* answer.
C6_VqaFailsOnlyWithoutQuestion ==
    (last.op = "any_to_any" /\ last.input_type = "image" /\ last.output_type = "vqa") =>
        LET r == last.result IN
        /\ MissingQuestion(r) <=> ~Truthy(last.question)
        /\ MissingQuestion(r) => r.calls = <<>>
        /\ (last.payload.kind \in {"bytes", "dict"} /\ Truthy(last.question)) =>
              /\ r.ops = <<"multimodal_vqa">>
              /\ Len(r.calls) = 1
              /\ r.calls[1].args = [image |-> Img, question |-> last.question]
              /\ ~last.ext.raised => (r.ok /\ r.value = PyStr(last.ext.res))

CapabilityRoutes == {"/dataset", "/chat", "/voice", "/image", "/vqa", "/any-to-any"}

\* the last event is the application's own treatment of a request, before
\* any worker answers
AtRouter ==
    /\ last.op \in {"response", "submit", "reading"}
    /\ last.via \in {"gate", "router", "handler"}

\* C2 (Spec), as claimed: with a shared secret configured, a request to a
\* route other than /health whose x-api-key header is missing or differs
\* from the secret is answered 401 before its handler runs: nothing is read,
\* submitted to the pool or run for it. A request to /health reaches its
\* handler whatever its header is.
C2_GateRejectsBadKey ==
    (Truthy(API_KEY) /\ AtRouter) =>
        /\ (last.req.route # "/health" /\ last.req.header # API_KEY) =>
              /\ last.op = "response"
              /\ last.status = 401
              /\ queue = <<>>
              /\ reading = EmptyBag
              /\ running = EmptyBag
              /\ done = EmptyBag
        /\ last.req.route = "/health" =>
              /\ last.op = "response"
              /\ last.via = "handler"
              /\ last.status = 200
              /\ last.body = [status |-> "ok"]

\* C3 (Spec), as claimed: without an inference credential the service is
\* never created and no facade call is ever submitted or run; every request
\* that passes the gate is answered at once: 500 with the HF_TOKEN detail on
\* each capability route, whatever the request's fields, 503 on /ready, 200
\* on /health.
C3_NoTokenDegraded ==
    ~Truthy(HF_TOKEN) =>
        /\ service = None
        /\ queue = <<>>
        /\ reading = EmptyBag
        /\ running = EmptyBag
        /\ done = EmptyBag
        /\ last.op \in {"none", "response"}
        /\ last.via # "worker"
        /\ (last.op = "response" /\ last.via # "gate") =>
              /\ last.req.route \in CapabilityRoutes =>
                    /\ last.status = 500
                    /\ last.body = [detail |-> "HF_TOKEN not configured on server"]
              /\ last.req.route = "/ready" => last.status = 503
              /\ last.req.route = "/health" => last.status = 200

NoPayloadSent(req) == req.file = NoPayload /\ req.text = None
VqaWithoutQuestion(task) ==
    /\ task.input_type = "image"
    /\ task.output_type = "vqa"
    /\ ~CarriesQuestion(task.payload)

\* C4 (Spec), as claimed: with the service configured, /any-to-any answers
\* 400 both when neither file nor text is sent and when the question of an
\* image->vqa dispatch is missing.
C4_BothValidationErrorsAre400 ==
    (Truthy(HF_TOKEN) /\ last.op = "response" /\ last.req.route = "/any-to-any") =>
        /\ (last.via = "handler" /\ NoPayloadSent(last.req)) => last.status = 400
        /\ (last.via = "worker" /\ VqaWithoutQuestion(last.req)) => last.status = 400

\* C9 (Spec), as claimed: with no shared secret configured every request
\* passes the gate, and the warning is emitted once in a process lifetime:
\* never more than once, and once when a request to a gated route has been
\* handled.
C9_WarnedOncePerBoot ==
    ~Truthy(API_KEY) =>
        /\ last.via # "gate"
        /\ warnings <= 1
        /\ gated >= 1 => warnings = 1

\* C7 (SpecRace): the cache is written without a lock, and whatever the
\* interleaving a key has one entry, the object stored last (none before the
\* first store).
C7_LastWriteWins ==
    \A k \in Keys :
        IF stores[k] = <<>>
        THEN ~CacheHit(datasets, k)
        ELSE /\ CacheHit(datasets, k)
             /\ datasets[k].id = stores[k][Len(stores[k])]

\* two loads of one key both found it absent, the loader ran twice, and the
\* object of the first loader call, stored last, is the one cached
C7_Witness ==
    \E k \in Keys :
        /\ loaderCalls[k] = 2
        /\ loaderOk[k] = 2
        /\ stores[k] = << <<k, 2>>, <<k, 1>> >>
        /\ datasets[k].id = <<k, 1>>

HealthCheck == Receive([route |-> "/health", header |-> None])

\* C8 (SpecPool): at most 4 facade calls execute at a time and a call
\* submitted while 4 execute stays queued; an external call that never
\* returns keeps its worker for good; once 4 of them hang no facade call
\* starts or finishes any more, so that a request submitted from then on stays
\* queued and only calls finished before are still answered, while /health
\* is still answered.
C8_FourWorkersAndStarvation ==
    /\ [](BagCardinality(running) <= 4)
    /\ [](BagCardinality(running) = 4 => ~ENABLED StartClient)
    /\ [][HungCount' >= HungCount]_vars
    /\ [][HungCount = 4 =>
            /\ running' = running
            /\ Len(queue') >= Len(queue)
            /\ BagCardinality(done') <= BagCardinality(done)]_vars
    /\ [][(HungCount = 4 /\ done = EmptyBag) =>
            (last' = last \/ last'.via # "worker")]_vars
    /\ [](HungCount = 4 => ENABLED HealthCheck)

\* four hung calls, a fifth request waiting, /health just answered
C8_Witness ==
    /\ HungCount = 4
    /\ queue # <<>>
    /\ last.op = "response"
    /\ last.req.route = "/health"
    /\ last.status = 200

===========================================================================
